---- MODULE Spec2Model ----
(***************************************************************************)
(* A model of end_to_end_vc_research.py: the mbox ingestion loop with its  *)
(* exclusion rules, the sort-and-reduce step of main(), the per-row        *)
(* analysis loop, the per-lead drafting loop and the CSV write.            *)
(*                                                                         *)
(* Strings are sequences of character codes, so that lower-casing,         *)
(* substring search, splitting at "@" and Python's string ordering are     *)
(* computed and not assumed.                                               *)
(***************************************************************************)
EXTENDS Integers, Sequences, FiniteSets, TLC

VARIABLES
    prompts,          \* TRUE iff both prompt files exist
    file,             \* input.mbox: "present", "missing", "missing_ro", "unreadable", "created"
    archive,          \* the records of input.mbox: [lead, tail]
    pc,               \* position of main()
    i,                \* number of records the loop of parse_mbox_file has taken
    rows,             \* parse_mbox_file: rows
    progress,         \* number of "Processing email" lines printed
    filtered_emails,  \* main: filtered_emails
    latest,           \* main: latest_emails_from_conversations
    calls,            \* analysis requests made so far: [contents, resp]
    investment_leads, \* analyze_and_research_emails: investment_leads
    dcalls,           \* drafting requests made so far: [contents, resp]
    drafted_leads,    \* draft_outreach_emails: drafted_leads
    csv,              \* output.csv: [written, data]
    exit_code         \* process outcome: "running", "0" or "1"

vars == <<prompts, file, archive, pc, i, rows, progress, filtered_emails, latest,
          calls, investment_leads, dcalls, drafted_leads, csv, exit_code>>

-----------------------------------------------------------------------------
(* Bounds of the model *)

MaxArchive == 3
MaxArchiveReduce == 3
MaxArchiveFilter == 1
MaxTail == 2

-----------------------------------------------------------------------------
(* Strings *)

EmptyStr == <<>>
cAt == <<64>>  \* "@"

Min(a, b) == IF a <= b THEN a ELSE b

\* str.lower() on the ASCII range
LowerChar(c) == IF c >= 65 /\ c <= 90 THEN c + 32 ELSE c
Lower(s) == [k \in 1..Len(s) |-> LowerChar(s[k])]

\* sub in s
Contains(sub, s) ==
    \E p \in 1..(Len(s) - Len(sub) + 1) : SubSeq(s, p, p + Len(sub) - 1) = sub

\* Python's ordering of str: first differing code point, a proper prefix is smaller
LexLess(a, b) ==
    \E k \in 1..(Min(Len(a), Len(b)) + 1) :
        /\ \A q \in 1..(k - 1) : a[q] = b[q]
        /\ \/ k > Len(a) /\ k <= Len(b)
           \/ k <= Len(a) /\ k <= Len(b) /\ a[k] < b[k]

Reverse(s) == [k \in 1..Len(s) |-> s[Len(s) + 1 - k]]

-----------------------------------------------------------------------------
(* Configuration *)

sIntegrity == <<105,110,116,101,103,114,105,116,121,111,107,99,46,99,111,109>>  \* "integrityokc.com"
sRosenbaum == <<114,111,115,101,110,98,97,117,109,114,101,97,108,116,121,103,114,111,117,112,46,99,111,109>>  \* "rosenbaumrealtygroup.com"
sColorado == <<99,111,108,111,114,97,100,111,114,112,109,46,99,111,109>>  \* "coloradorpm.com"
sSupport == <<115,117,112,112,111,114,116,64,105,110,116,101,103,114,105,116,121,111,107,99,46,99,111,109>>  \* "support@integrityokc.com"
sDemo == <<100,101,109,111,64,107,105,110,100,114,101,100,112,109,46,97,105>>  \* "demo@kindredpm.ai"
sSnyder == <<107,105,110,100,114,101,100,115,110,121,100,101,114,64,103,109,97,105,108,46,99,111,109>>  \* "kindredsnyder@gmail.com"
kwMaintenance == <<109,97,105,110,116,101,110,97,110,99,101>>  \* "maintenance"
kwWoId == <<119,111,95,105,100>>  \* "wo_id"
sSpamLc == <<115,112,97,109>>  \* "spam"
sTrashLc == <<116,114,97,115,104>>  \* "trash"

IGNORE_DOMAINS == {sIntegrity, sRosenbaum, sColorado}
IGNORE_SENDERS == {sSupport, sDemo, sSnyder}
SUBJECT_PHRASE_IGNORE == <<107,105,110,100,114,101,100,32,106,117,115,116,32,102,108,97,103,103,101,100>>  \* "kindred just flagged"
SUBJECT_KEYWORDS_IGNORE == {kwMaintenance, kwWoId}

ProgressEvery == 10000

-----------------------------------------------------------------------------
(* MessageDecoder helpers *)

\* _extract_name_and_email: the address parseaddr found, lower-cased
ExtractEmail(addr) == Lower(addr)

\* _sender_domain: email.split("@", 1)[-1].lower() if "@" in email else ""
FirstAt(email) == CHOOSE p \in 1..Len(email) :
                      email[p] = cAt[1] /\ \A q \in 1..(p - 1) : email[q] # cAt[1]
SenderDomain(email) ==
    IF Contains(cAt, email)
    THEN Lower(SubSeq(email, FirstAt(email) + 1, Len(email)))
    ELSE EmptyStr

TwoDigits(n) == <<48 + (n \div 10), 48 + (n % 10)>>
FourDigits(n) == TwoDigits(n \div 100) \o TwoDigits(n % 100)

\* datetime.isoformat() of the offset of an aware datetime: "+HH:MM" or "-HH:MM"
IsoOffset(off) ==
    LET a == IF off < 0 THEN 0 - off ELSE off
    IN  <<(IF off < 0 THEN 45 ELSE 43)>> \o TwoDigits(a \div 60) \o <<58>> \o TwoDigits(a % 60)

\* datetime.isoformat(): "YYYY-MM-DDTHH:MM:SS", followed by the offset when aware
IsoFormat(d) ==
    FourDigits(d.year) \o <<45>> \o TwoDigits(d.month) \o <<45>> \o TwoDigits(d.day)
    \o <<84>> \o TwoDigits(d.hour) \o <<58>> \o TwoDigits(d.minute) \o <<58>>
    \o TwoDigits(d.second)
    \o (IF d.kind = "aware" THEN IsoOffset(d.off) ELSE EmptyStr)

\* _message_datetime: "" without a Date header or when parsedate_to_datetime raises
MessageDatetime(msg) ==
    IF msg.date.kind \in {"absent", "invalid"} THEN EmptyStr ELSE IsoFormat(msg.date)

-----------------------------------------------------------------------------
(* ExclusionEngine *)

\* subject_matches_ignores
SubjectMatchesIgnores(subject) ==
    LET s == Lower(subject)
    IN  IF Contains(SUBJECT_PHRASE_IGNORE, s) THEN TRUE
        ELSE \E w \in SUBJECT_KEYWORDS_IGNORE : Contains(w, s)

\* is_in_spam_or_trash comparing the raw label values, without v.lower()
IsInSpamOrTrashCaseSensitive(msg) ==
    \E k \in 1..Len(msg.labels) :
        Contains(sSpamLc, msg.labels[k]) \/ Contains(sTrashLc, msg.labels[k])

\* is_in_spam_or_trash: msg.labels are the values of the four label headers
IsInSpamOrTrash(msg) ==
    \E k \in 1..Len(msg.labels) :
        Contains(sSpamLc, Lower(msg.labels[k])) \/ Contains(sTrashLc, Lower(msg.labels[k]))

\* the "Ignore rules" of parse_mbox_file, in the order the loop tests them
IsIgnored(msg) ==
    LET from_email == ExtractEmail(msg.addr)
        dom == SenderDomain(from_email)
    IN  IF IsInSpamOrTrash(msg) THEN TRUE
        ELSE IF dom \in IGNORE_DOMAINS THEN TRUE
        ELSE IF from_email \in IGNORE_SENDERS THEN TRUE
        ELSE SubjectMatchesIgnores(msg.subject)

\* the row parse_mbox_file builds for a record it keeps
MakeRow(msg) ==
    [email |-> ExtractEmail(msg.addr),
     subject |-> msg.subject,
     date |-> MessageDatetime(msg),
     sender_domain |-> SenderDomain(ExtractEmail(msg.addr))]

-----------------------------------------------------------------------------
(* ConversationReducer: main(), steps 3 and 4 *)

\* the place a stable ascending sort gives x among the already sorted rows
InsertAsc(sorted, x) ==
    SelectSeq(sorted, LAMBDA e : ~LexLess(x.date, e.date))
    \o <<x>>
    \o SelectSeq(sorted, LAMBDA e : LexLess(x.date, e.date))

RECURSIVE StableSortAsc(_)
StableSortAsc(s) ==
    IF s = <<>> THEN <<>>
    ELSE InsertAsc(StableSortAsc(SubSeq(s, 1, Len(s) - 1)), s[Len(s)])

\* a sort without reverse=True
SortByDateAsc(s) == StableSortAsc(s)

\* an ascending sort whose result is reversed afterwards
SortThenReverse(s) == Reverse(StableSortAsc(s))

\* filtered_emails.sort(key=lambda x: x.get('date', ''), reverse=True):
\* list.sort reverses the list, sorts it stably ascending and reverses it again
SortByDateDesc(s) == Reverse(StableSortAsc(Reverse(s)))

\* the loop of step 4 inserting each first-seen row at the front
RECURSIVE KeepLoopPrepend(_, _, _)
KeepLoopPrepend(s, out, processed_domains) ==
    IF s = <<>> THEN out
    ELSE LET email == Head(s)
             domain == email.sender_domain
         IN  IF domain # EmptyStr /\ domain \notin processed_domains
             THEN KeepLoopPrepend(Tail(s), <<email>> \o out, processed_domains \cup {domain})
             ELSE KeepLoopPrepend(Tail(s), out, processed_domains)

\* the loop of step 4: s is what is left of filtered_emails
RECURSIVE KeepLoop(_, _, _)
KeepLoop(s, out, processed_domains) ==
    IF s = <<>> THEN out
    ELSE LET email == Head(s)
             domain == email.sender_domain
         IN  IF domain # EmptyStr /\ domain \notin processed_domains
             THEN KeepLoop(Tail(s), Append(out, email), processed_domains \cup {domain})
             ELSE KeepLoop(Tail(s), out, processed_domains)

\* step 4 with the loop that inserts at the front
KeepFirstPerDomainPrepend(s) == KeepLoopPrepend(s, <<>>, {})

\* main, step 4: latest_emails_from_conversations of the sorted filtered_emails
KeepFirstPerDomain(s) == KeepLoop(s, <<>>, {})

-----------------------------------------------------------------------------
(* The archive *)

DateHdr(kind, day, hour, off) ==
    [kind |-> kind, year |-> 2025, month |-> 1, day |-> day, hour |-> hour,
     minute |-> 0, second |-> 0, off |-> off]

Msg(addr, subject, date, labels) ==
    [addr |-> addr, subject |-> subject, date |-> date, labels |-> labels]

ArchiveLen == archive.lead + Len(archive.tail)

\* input addresses, subjects and label values
eAX == <<97,64,120,46,99,111,109>>  \* "a@x.com"
eAXup == <<65,64,88,46,67,79,77>>  \* "A@X.COM"
eCY == <<99,64,121,46,99,111,109>>  \* "c@y.com"
eNoAt == <<110,111,98,111,100,121>>  \* "nobody"
eColo == <<106,111,101,64,99,111,108,111,114,97,100,111,114,112,109,46,99,111,109>>  \* "joe@coloradorpm.com"
eDemoUp == <<68,101,109,111,64,75,105,110,100,114,101,100,80,77,46,97,105>>  \* "Demo@KindredPM.ai"
subjHi == <<104,105>>  \* "hi"
subjRe == <<114,101>>  \* "re"
subjMaint == <<77,97,105,110,116,101,110,97,110,99,101,32,114,101,113,117,101,115,116,32,87,79,95,73,68,32,49,50,51>>  \* "Maintenance request WO_ID 123"
subjFlag == <<75,105,110,100,114,101,100,32,106,117,115,116,32,102,108,97,103,103,101,100,32,51>>  \* "Kindred just flagged 3"
lblInbox == <<73,110,98,111,120>>  \* "Inbox"
lblSpam == <<83,112,97,109>>  \* "Spam"
lblSPAM == <<83,80,65,77,44,73,110,98,111,120>>  \* "SPAM,Inbox"
lblTrash == <<84,114,97,115,104>>  \* "Trash"

NoDate == DateHdr("absent", 1, 0, 0)
BadDate == DateHdr("invalid", 1, 0, 0)
DateKst == DateHdr("aware", 1, 10, 540)    \* Wed, 01 Jan 2025 10:00:00 +0900
DateUtc == DateHdr("aware", 1, 9, 0)       \* Wed, 01 Jan 2025 09:00:00 +0000
DatePst == DateHdr("aware", 1, 9, -480)    \* Wed, 01 Jan 2025 09:00:00 -0800
DateNaive == DateHdr("naive", 1, 9, 0)     \* Wed, 01 Jan 2025 09:00:00 -0000

\* the record every one of the archive.lead leading records is
LeadMsg == Msg(eAX, subjHi, DateUtc, <<lblSpam>>)

\* record k of the archive, k counted from 0 as enumerate(mbox) counts
Record(k) == IF k < archive.lead THEN LeadMsg ELSE archive.tail[k - archive.lead + 1]

SeqsUpTo(S, n) == UNION {[1..k -> S] : k \in 0..n}

\* the archives of the full pipeline
MainMsgs ==
    {Msg(eAX, subjHi, DateKst, <<>>), Msg(eCY, subjHi, DatePst, <<lblInbox>>),
     Msg(eNoAt, subjHi, NoDate, <<>>), Msg(eAX, subjHi, DateUtc, <<lblSpam>>)}

\* the archives of the reduction step
ReduceMsgs ==
    {Msg(eAX, s, d, <<>>) : s \in {subjHi, subjRe}, d \in {DateKst, DateUtc, NoDate}}
    \cup {Msg(eCY, subjHi, d, <<>>) : d \in {DateKst, DateNaive, BadDate}}
    \cup {Msg(eNoAt, subjHi, DateUtc, <<>>)}

\* the archives of the exclusion rules
FilterMsgs ==
    {Msg(a, s, DateUtc, l) :
        a \in {eAXup, eColo, eDemoUp, sSupport},
        s \in {subjHi, subjMaint, subjFlag},
        l \in {<<>>, <<lblInbox>>, <<lblInbox, lblSPAM>>, <<lblTrash>>, <<lblSpam>>}}

\* the archives long enough for a progress line
ProgressMsgs ==
    {Msg(eAX, subjHi, DateUtc, <<>>), Msg(eCY, subjRe, DateKst, <<lblInbox>>),
     Msg(eCY, subjHi, DateUtc, <<lblTrash>>)}

-----------------------------------------------------------------------------
(* The external services *)

\* what client.models.generate_content does for one analysis request: it raises,
\* or returns text; obj is the JSON object of the fenced block, key by key
Value(isdict, decision, name) == [isdict |-> isdict, decision |-> decision, name |-> name]
Resp(raises, fenced, wellformed, obj) ==
    [raises |-> raises, fenced |-> fenced, wellformed |-> wellformed, obj |-> obj]

AnalysisResponses ==
    {Resp(TRUE, FALSE, FALSE, <<>>),                                  \* the call raises
     Resp(FALSE, FALSE, FALSE, <<>>),                                 \* no fenced block
     Resp(FALSE, TRUE, FALSE, <<>>),                                  \* malformed JSON
     Resp(FALSE, TRUE, TRUE, <<>>),                                   \* {}
     Resp(FALSE, TRUE, TRUE, <<[key |-> "k", val |-> Value(FALSE, "absent", "")]>>),  \* {"k": "text"}
     Resp(FALSE, TRUE, TRUE, <<[key |-> "k", val |-> Value(TRUE, "absent", "Acme")]>>),   \* {"k": {}}
     Resp(FALSE, TRUE, TRUE, <<[key |-> "k", val |-> Value(TRUE, "0", "Acme")]>>),
     Resp(FALSE, TRUE, TRUE, <<[key |-> "k", val |-> Value(TRUE, "1", "Acme")]>>),
     Resp(FALSE, TRUE, TRUE, <<[key |-> "k", val |-> Value(TRUE, "1", "Bolt")]>>)}

\* what generate_content does for one drafting request
DraftResponses == {[raises |-> TRUE, text |-> "boom"], [raises |-> FALSE, text |-> "Dear Acme"]}

\* json_match: None, or the parsed object
JsonMatch(resp) ==
    IF resp.fenced
    THEN IF resp.wellformed THEN [none |-> FALSE, dict |-> resp.obj]
         ELSE [none |-> TRUE, dict |-> <<>>]
    ELSE [none |-> TRUE, dict |-> <<>>]

\* the body of the loop of analyze_and_research_emails: investment_leads after one row
AnalyzeRow(leads, resp) ==
    IF resp.raises THEN leads
    ELSE LET answer_dict == JsonMatch(resp)
         IN  IF answer_dict.none \/ answer_dict.dict = <<>> THEN leads
             ELSE LET lead_data == answer_dict.dict[1].val
                  IN  IF ~lead_data.isdict THEN leads          \* .get raises, caught
                      ELSE IF lead_data.decision \in {"absent", "0"} THEN leads
                      ELSE Append(leads, answer_dict.dict)

ErrorDraft(e) == "Error generating draft: " \o e

WithDraft(lead_details, draft) ==
    [k \in DOMAIN lead_details \cup {"investment_email_draft"} |->
        IF k = "investment_email_draft" THEN draft ELSE lead_details[k]]

\* the body of the loop of draft_outreach_emails with no append in the except branch
DraftOneDropFailed(drafted, lead_data, resp) ==
    IF resp.raises THEN drafted
    ELSE Append(drafted, WithDraft(lead_data[1].val, resp.text))

\* the body of the loop of draft_outreach_emails: drafted_leads after one lead
DraftOne(drafted, lead_data, resp) ==
    LET lead_details == lead_data[1].val
    IN  IF resp.raises
        THEN Append(drafted, WithDraft(lead_details, ErrorDraft(resp.text)))
        ELSE Append(drafted, WithDraft(lead_details, resp.text))

-----------------------------------------------------------------------------
(* Initial states *)

InitWith(promptStates, fileStates, leads, msgs, maxLen) ==
    /\ prompts \in promptStates
    /\ file \in fileStates
    /\ archive \in IF file = "present"
                   THEN [lead : leads, tail : SeqsUpTo(msgs, maxLen)]
                   ELSE {[lead |-> 0, tail |-> <<>>]}
    /\ pc = "main"
    /\ i = 0
    /\ rows = <<>>
    /\ progress = 0
    /\ filtered_emails = <<>>
    /\ latest = <<>>
    /\ calls = <<>>
    /\ investment_leads = <<>>
    /\ dcalls = <<>>
    /\ drafted_leads = <<>>
    /\ csv = [written |-> FALSE, data |-> <<>>]
    /\ exit_code = "running"

Init == InitWith({TRUE, FALSE}, {"present", "missing", "missing_ro", "unreadable"},
                 {0}, MainMsgs, MaxArchive)
InitReduce == InitWith({TRUE}, {"present"}, {0}, ReduceMsgs, MaxArchiveReduce)
InitFilter == InitWith({TRUE}, {"present"}, {0}, FilterMsgs, MaxArchiveFilter)
InitProgress == InitWith({TRUE}, {"present"}, {0, ProgressEvery - 1}, ProgressMsgs, MaxTail)

-----------------------------------------------------------------------------
(* main() *)

ingestVars == <<i, rows, progress>>
reduceVars == <<filtered_emails, latest>>
serviceVars == <<calls, investment_leads, dcalls, drafted_leads, csv>>

\* main, step 1: the two prompt files are read, or sys.exit(1)
ReadPrompts ==
    /\ pc = "main"
    /\ pc' = IF prompts THEN "open" ELSE "fatal"
    /\ exit_code' = IF prompts THEN exit_code ELSE "1"
    /\ UNCHANGED <<prompts, file, archive, ingestVars, reduceVars, serviceVars>>

\* parse_mbox_file: mailbox.mbox(mbox_file, factory=...), whose create defaults to
\* True: a missing file is created empty where the directory allows it; the
\* OSError of any other failure leaves main() uncaught
OpenMbox ==
    /\ pc = "open"
    /\ file' = IF file = "missing" THEN "created" ELSE file
    /\ pc' = IF file \in {"present", "missing"} THEN "loop" ELSE "fatal"
    /\ exit_code' = IF file \in {"present", "missing"} THEN exit_code ELSE "1"
    /\ i' = 0
    /\ rows' = <<>>
    /\ UNCHANGED <<prompts, archive, progress, reduceVars, serviceVars>>

\* the loop body of parse_mbox_file leaving out the record of a progress line
ParseStepSkipOnProgress ==
    /\ pc = "loop"
    /\ i < ArchiveLen
    /\ progress' = IF i % ProgressEvery = ProgressEvery - 1 THEN progress + 1 ELSE progress
    /\ rows' = IF i % ProgressEvery = ProgressEvery - 1 \/ IsIgnored(Record(i)) THEN rows
               ELSE Append(rows, MakeRow(Record(i)))
    /\ i' = i + 1
    /\ UNCHANGED <<prompts, file, archive, pc, reduceVars, serviceVars, exit_code>>

\* one turn of the loop of parse_mbox_file, on record i
ParseStep ==
    /\ pc = "loop"
    /\ i < ArchiveLen
    /\ progress' = IF i % ProgressEvery = ProgressEvery - 1 THEN progress + 1 ELSE progress
    /\ rows' = IF IsIgnored(Record(i)) THEN rows ELSE Append(rows, MakeRow(Record(i)))
    /\ i' = i + 1
    /\ UNCHANGED <<prompts, file, archive, pc, reduceVars, serviceVars, exit_code>>

\* the return of parse_mbox_file going on to step 3 whatever it returns
ParseReturnNoCheck ==
    /\ pc = "loop"
    /\ i = ArchiveLen
    /\ filtered_emails' = rows
    /\ pc' = "sort"
    /\ UNCHANGED <<prompts, file, archive, ingestVars, latest, serviceVars, exit_code>>

\* the return of parse_mbox_file and main's "if not filtered_emails"
ParseReturn ==
    /\ pc = "loop"
    /\ i = ArchiveLen
    /\ filtered_emails' = rows
    /\ pc' = IF rows = <<>> THEN "done" ELSE "sort"
    /\ exit_code' = IF rows = <<>> THEN "0" ELSE exit_code
    /\ UNCHANGED <<prompts, file, archive, ingestVars, latest, serviceVars>>

\* main, steps 3 and 4
SortAndReduce ==
    /\ pc = "sort"
    /\ filtered_emails' = SortByDateDesc(filtered_emails)
    /\ latest' = KeepFirstPerDomain(SortByDateDesc(filtered_emails))
    /\ pc' = "analyze"
    /\ UNCHANGED <<prompts, file, archive, ingestVars, serviceVars, exit_code>>

\* the loop of analyze_and_research_emails ended by the first request that raises
AnalyzeStepBreak ==
    /\ pc = "analyze"
    /\ Len(calls) < Len(latest)
    /\ \E resp \in AnalysisResponses :
        /\ calls' = Append(calls, [contents |-> latest[Len(calls) + 1], resp |-> resp])
        /\ investment_leads' = AnalyzeRow(investment_leads, resp)
        /\ pc' = IF resp.raises
                 THEN (IF investment_leads = <<>> THEN "done" ELSE "draft")
                 ELSE pc
        /\ exit_code' = IF resp.raises /\ investment_leads = <<>> THEN "0" ELSE exit_code
    /\ UNCHANGED <<prompts, file, archive, ingestVars, reduceVars, dcalls, drafted_leads, csv>>

\* one turn of the loop of analyze_and_research_emails: one request, for the next row
AnalyzeStep ==
    /\ pc = "analyze"
    /\ Len(calls) < Len(latest)
    /\ \E resp \in AnalysisResponses :
        /\ calls' = Append(calls, [contents |-> latest[Len(calls) + 1], resp |-> resp])
        /\ investment_leads' = AnalyzeRow(investment_leads, resp)
    /\ UNCHANGED <<prompts, file, archive, pc, ingestVars, reduceVars, dcalls,
                   drafted_leads, csv, exit_code>>

\* the return of analyze_and_research_emails and main's "if not investment_leads"
AnalyzeReturn ==
    /\ pc = "analyze"
    /\ Len(calls) = Len(latest)
    /\ pc' = IF investment_leads = <<>> THEN "done" ELSE "draft"
    /\ exit_code' = IF investment_leads = <<>> THEN "0" ELSE exit_code
    /\ UNCHANGED <<prompts, file, archive, ingestVars, reduceVars, serviceVars>>

\* one turn of the loop of draft_outreach_emails: one request, for the next lead
DraftStep ==
    /\ pc = "draft"
    /\ Len(dcalls) < Len(investment_leads)
    /\ \E resp \in DraftResponses :
        LET lead_data == investment_leads[Len(dcalls) + 1]
        IN  /\ dcalls' = Append(dcalls, [contents |-> lead_data[1].val, resp |-> resp])
            /\ drafted_leads' = DraftOne(drafted_leads, lead_data, resp)
    /\ UNCHANGED <<prompts, file, archive, pc, ingestVars, reduceVars, calls,
                   investment_leads, csv, exit_code>>

\* write_to_csv: nothing is written for no data
WriteToCsv(data) == IF data = <<>> THEN csv ELSE [written |-> TRUE, data |-> data]

\* the return of draft_outreach_emails, then main's step 7 and its end
DraftReturn ==
    /\ pc = "draft"
    /\ Len(dcalls) = Len(investment_leads)
    /\ csv' = WriteToCsv(drafted_leads)
    /\ pc' = "done"
    /\ exit_code' = "0"
    /\ UNCHANGED <<prompts, file, archive, ingestVars, reduceVars, calls,
                   investment_leads, dcalls, drafted_leads>>

NextIngest == ReadPrompts \/ OpenMbox \/ ParseStep \/ ParseReturn
NextReduce == NextIngest \/ SortAndReduce
Next == NextReduce \/ AnalyzeStep \/ AnalyzeReturn \/ DraftStep \/ DraftReturn

\* the whole pipeline
Spec == Init /\ [][Next]_vars
\* ingestion and reduction, on archives with varied senders and Date headers
SpecReduce == InitReduce /\ [][NextReduce]_vars
\* ingestion on archives with varied labels, senders and subjects
SpecFilter == InitFilter /\ [][NextIngest]_vars
\* ingestion on archives long enough for a progress line
SpecProgress == InitProgress /\ [][NextIngest]_vars

-----------------------------------------------------------------------------
(* Properties *)

Domains(s) == {s[k].sender_domain : k \in 1..Len(s)} \ {EmptyStr}

\* C1: after the reduction step the kept rows are input rows, no kept row has an
\* empty sender_domain, no two kept rows share a sender_domain, every non-empty
\* sender_domain of the input is kept, and no input row of a kept row's domain has
\* a timestamp lexicographically greater than the kept row's.
C1_OnePerDomainMaxTimestamp ==
    pc = "analyze" =>
        /\ \A k \in 1..Len(latest) :
            /\ latest[k].sender_domain # EmptyStr
            /\ \E m \in 1..Len(rows) : rows[m] = latest[k]
            /\ \A m \in 1..Len(rows) :
                rows[m].sender_domain = latest[k].sender_domain
                    => ~LexLess(latest[k].date, rows[m].date)
        /\ \A k1, k2 \in 1..Len(latest) :
            k1 # k2 => latest[k1].sender_domain # latest[k2].sender_domain
        /\ Domains(latest) = Domains(rows)

\* two rows from a@x.com with timestamps T1 < T2 were reduced to the one with T2
C1_Witness ==
    /\ pc = "analyze"
    /\ Len(rows) = 2
    /\ rows[1].email = eAX /\ rows[2].email = eAX
    /\ rows[1].date # EmptyStr
    /\ LexLess(rows[1].date, rows[2].date)
    /\ Len(latest) = 1
    /\ latest[1].date = rows[2].date

\* the instant, in minutes from the start of the month, that an ISO-8601 string
\* of one fixed month denotes; a string without offset is read as UTC
Num2(ts, p) == (ts[p] - 48) * 10 + (ts[p + 1] - 48)
InstantOf(ts) ==
    LET local == (Num2(ts, 9) * 24 + Num2(ts, 12)) * 60 + Num2(ts, 15)
        off == IF Len(ts) > 19
               THEN (IF ts[20] = 45 THEN -1 ELSE 1) * (Num2(ts, 21) * 60 + Num2(ts, 24))
               ELSE 0
    IN  local - off

\* C2: the row kept for a sender domain denotes an instant no earlier than that of
\* any dated input row of the domain, and of two parsed timestamps the
\* lexicographically greater one denotes the later instant.
C2_KeptRowIsChronologicallyLatest ==
    pc = "analyze" =>
        /\ \A k \in 1..Len(latest) : \A m \in 1..Len(rows) :
            (rows[m].sender_domain = latest[k].sender_domain /\ rows[m].date # EmptyStr)
                => /\ latest[k].date # EmptyStr
                   /\ InstantOf(rows[m].date) <= InstantOf(latest[k].date)
        /\ \A m, n \in 1..Len(rows) :
            (rows[m].date # EmptyStr /\ LexLess(rows[m].date, rows[n].date))
                => InstantOf(rows[m].date) < InstantOf(rows[n].date)

\* C3: a run whose archive file is missing or unreadable goes nowhere but to the
\* fatal exit with outcome 1, and the file is never created.
C3_MissingArchiveIsFatal ==
    /\ file # "created"
    /\ file \in {"missing", "missing_ro", "unreadable"} => pc \in {"main", "open", "fatal"}
    /\ pc = "fatal" => exit_code = "1"

\* a response from which analyze_and_research_emails takes a lead
IsLeadResp(resp) ==
    /\ ~resp.raises /\ resp.fenced /\ resp.wellformed
    /\ resp.obj # <<>>
    /\ resp.obj[1].val.isdict
    /\ resp.obj[1].val.decision = "1"

RECURSIVE LeadsOf(_)
LeadsOf(cs) ==
    IF cs = <<>> THEN <<>>
    ELSE LeadsOf(SubSeq(cs, 1, Len(cs) - 1))
         \o (IF IsLeadResp(cs[Len(cs)].resp) THEN <<cs[Len(cs)].resp.obj>> ELSE <<>>)

\* C4: the k-th analysis request is for the k-th reduced row, whatever the earlier
\* requests did; the leads are, in order, the objects of the requests that gave a
\* lead; and the analysis loop is left only after one request per row.
C4_OneRequestPerRowInOrder ==
    /\ Len(calls) <= Len(latest)
    /\ \A k \in 1..Len(calls) : calls[k].contents = latest[k]
    /\ investment_leads = LeadsOf(calls)
    /\ (pc = "draft" \/ (pc = "done" /\ rows # <<>>)) => Len(calls) = Len(latest)
    /\ calls # <<>> => exit_code # "1"

\* the first request raised, the second one was still made and gave a lead
C4_Witness ==
    /\ pc = "draft"
    /\ Len(calls) = 2
    /\ calls[1].resp.raises
    /\ IsLeadResp(calls[2].resp)
    /\ Len(investment_leads) = 1

\* C5: drafted_leads holds one record per drafting request, the k-th being the
\* k-th lead's details with an investment_email_draft that is the response text,
\* or the error string when the request raised; the drafting loop is left only
\* after one request per lead, and what is written is those records.
C5_OneRecordPerLeadInOrder ==
    /\ Len(drafted_leads) = Len(dcalls)
    /\ Len(dcalls) <= Len(investment_leads)
    /\ \A k \in 1..Len(dcalls) :
        /\ dcalls[k].contents = investment_leads[k][1].val
        /\ k <= Len(drafted_leads) =>
            /\ \A f \in DOMAIN investment_leads[k][1].val :
                drafted_leads[k][f] = investment_leads[k][1].val[f]
            /\ drafted_leads[k].investment_email_draft =
                   IF dcalls[k].resp.raises
                   THEN "Error generating draft: " \o dcalls[k].resp.text
                   ELSE dcalls[k].resp.text
    /\ (pc = "done" /\ investment_leads # <<>>) =>
        /\ Len(drafted_leads) = Len(investment_leads)
        /\ csv = [written |-> TRUE, data |-> drafted_leads]

\* the first of two drafting requests raised: both leads have their record
C5_Witness ==
    /\ pc = "done"
    /\ Len(investment_leads) = 2
    /\ investment_leads[1][1].val.name # investment_leads[2][1].val.name
    /\ dcalls[1].resp.raises
    /\ ~dcalls[2].resp.raises
    /\ Len(drafted_leads) = 2

\* C6: once parse_mbox_file has returned no row the run is over with outcome 0, no
\* request made and no CSV written; once the analysis has returned no lead the run
\* is over with outcome 0, no drafting request made and no CSV written; an empty
\* reduced list gets no analysis request.
C6_EmptyResultsEndCleanly ==
    /\ (pc \notin {"main", "open", "loop", "fatal"} /\ rows = <<>>) =>
        /\ pc = "done" /\ exit_code = "0"
        /\ calls = <<>> /\ dcalls = <<>> /\ ~csv.written
    /\ (pc \in {"draft", "done"} /\ investment_leads = <<>>) =>
        /\ pc = "done" /\ exit_code = "0"
        /\ dcalls = <<>> /\ ~csv.written
    /\ (pc \in {"analyze", "draft", "done"} /\ latest = <<>>) => calls = <<>>

\* rows survived the filter, all without a sender domain: clean end, nothing written
C6_Witness ==
    /\ pc = "done"
    /\ rows # <<>>
    /\ latest = <<>>
    /\ exit_code = "0"
    /\ ~csv.written

\* the exclusion rules, each stated on the record alone
ContainsCI(word, s) ==
    \E p \in 1..Len(s) :
        /\ p + Len(word) - 1 <= Len(s)
        /\ \A q \in 1..Len(word) : LowerChar(s[p + q - 1]) = word[q]
RuleLabel(m) ==
    \E k \in 1..Len(m.labels) :
        ContainsCI(sSpamLc, m.labels[k]) \/ ContainsCI(sTrashLc, m.labels[k])
RuleDomain(m) == SenderDomain(Lower(m.addr)) \in IGNORE_DOMAINS
RuleSender(m) == Lower(m.addr) \in IGNORE_SENDERS
RuleSubject(m) ==
    \/ ContainsCI(SUBJECT_PHRASE_IGNORE, m.subject)
    \/ \E w \in SUBJECT_KEYWORDS_IGNORE : ContainsCI(w, m.subject)
AnyRule(m) == RuleLabel(m) \/ RuleDomain(m) \/ RuleSender(m) \/ RuleSubject(m)

\* C7: the rows kept so far are as many as the records taken so far that match
\* none of the four rules; the loop's verdict on a record is that of the four rules
\* taken in the opposite order; and while every record taken carries a label
\* containing "spam" or "trash" in any letter case, no row is kept.
C7_ExcludedIffSomeRuleMatches ==
    /\ Len(rows) = Cardinality({k \in 0..(i - 1) : ~AnyRule(Record(k))})
    /\ \A k \in 0..(i - 1) :
        IsIgnored(Record(k)) <=> (RuleSubject(Record(k)) \/ RuleSender(Record(k))
                                  \/ RuleDomain(Record(k)) \/ RuleLabel(Record(k)))
    /\ (\A k \in 0..(i - 1) : RuleLabel(Record(k))) => rows = <<>>

\* a record labelled "SPAM,Inbox" that no other rule matches was taken and not kept
C7_Witness ==
    /\ i = 1
    /\ Record(0).labels = <<lblInbox, lblSPAM>>
    /\ ~RuleDomain(Record(0)) /\ ~RuleSender(Record(0)) /\ ~RuleSubject(Record(0))
    /\ rows = <<>>

\* the rows of the non-excluded among the first n records, in archive order
RECURSIVE KeptRows(_)
KeptRows(n) ==
    IF n = 0 THEN <<>>
    ELSE IF n <= archive.lead
         THEN (IF IsIgnored(LeadMsg) THEN <<>> ELSE [k \in 1..n |-> MakeRow(LeadMsg)])
         ELSE KeptRows(n - 1)
              \o (IF IsIgnored(Record(n - 1)) THEN <<>> ELSE <<MakeRow(Record(n - 1))>>)

\* C8: after i records the rows are those of the non-excluded among the first i
\* records, in archive order, whether or not a progress line was printed on the
\* way; and parse_mbox_file returns only after the last record, with those rows.
C8_RowsAreTheKeptRecordsInOrder ==
    /\ i <= ArchiveLen
    /\ pc \in {"loop", "sort", "done"} => rows = KeptRows(i)
    /\ pc \in {"sort", "done"} => (i = ArchiveLen /\ filtered_emails = rows)
    /\ progress = i \div ProgressEvery

\* the 10000th record printed a progress line and is kept, and so is the next
C8_Witness ==
    /\ pc = "sort"
    /\ archive.lead = ProgressEvery - 1
    /\ progress = 1
    /\ Len(archive.tail) = 2
    /\ filtered_emails = <<MakeRow(archive.tail[1]), MakeRow(archive.tail[2])>>

\* C9: reducing the reduced list again gives the same list.
C9_ReduceIsIdempotent ==
    pc = "analyze" => KeepFirstPerDomain(SortByDateDesc(latest)) = latest

\* a reduced list of two rows with equal, empty timestamps, from an input that
\* also had a row without sender domain
C9_Witness ==
    /\ pc = "analyze"
    /\ Len(latest) = 2
    /\ latest[1].date = EmptyStr /\ latest[2].date = EmptyStr
    /\ \E m \in 1..Len(rows) : rows[m].sender_domain = EmptyStr
    /\ KeepFirstPerDomain(SortByDateDesc(latest)) = latest

WithDate(s, t) == SelectSeq(s, LAMBDA r : r.date = t)
IsFirstBest(m) ==
    /\ \A n \in 1..Len(rows) :
        rows[n].sender_domain = rows[m].sender_domain => ~LexLess(rows[m].date, rows[n].date)
    /\ \A n \in 1..(m - 1) :
        ~(rows[n].sender_domain = rows[m].sender_domain /\ rows[n].date = rows[m].date)
\* the first input position holding the greatest timestamp of domain d
FirstBest(d) == CHOOSE m \in 1..Len(rows) : rows[m].sender_domain = d /\ IsFirstBest(m)

\* C10: the sorted list is in non-increasing timestamp order and keeps, for every
\* timestamp, the rows of that timestamp in their input order; the row kept for a
\* domain is the first input row holding the domain's greatest timestamp; and the
\* reduced list is in non-increasing timestamp order with ties in input order.
C10_SortIsStableFirstOfTiesKept ==
    pc = "analyze" =>
        /\ Len(filtered_emails) = Len(rows)
        /\ \A p, q \in 1..Len(filtered_emails) :
            p < q => ~LexLess(filtered_emails[p].date, filtered_emails[q].date)
        /\ \A m \in 1..Len(rows) :
            WithDate(filtered_emails, rows[m].date) = WithDate(rows, rows[m].date)
        /\ \A k \in 1..Len(latest) : latest[k] = rows[FirstBest(latest[k].sender_domain)]
        /\ \A p, q \in 1..Len(latest) :
            p < q =>
                /\ ~LexLess(latest[p].date, latest[q].date)
                /\ latest[p].date = latest[q].date =>
                    FirstBest(latest[p].sender_domain) < FirstBest(latest[q].sender_domain)

\* two different rows of one domain share its greatest timestamp: the first is kept
C10_Witness ==
    /\ pc = "analyze"
    /\ Len(rows) = 3
    /\ rows[1].sender_domain = rows[2].sender_domain
    /\ rows[1].sender_domain # EmptyStr
    /\ rows[1].date = rows[2].date
    /\ rows[1] # rows[2]
    /\ rows[3].sender_domain # rows[1].sender_domain
    /\ rows[3].date = rows[1].date
    /\ latest = <<rows[1], rows[3]>>

====
